---------------------------- MODULE Spec2Model ----------------------------
(***************************************************************************)
(* A model of src/app.py: a Flask storefront keeping two JSON documents,   *)
(* data/users.json ({"users": [...]}) and data/products.json               *)
(* ({"products": [...]}), the session cookie of a browser, and the routes  *)
(* index, product_detail, register, login, logout, admin_panel,            *)
(* add_product, edit_product and delete_product.                           *)
(*                                                                         *)
(* Every handler is a pure operator from the request and the documents it  *)
(* loads to an outcome: either it has answered (a render, a redirect with  *)
(* a flash notice, or an uncaught exception, which Flask turns into a 500) *)
(* or it has built the collection it is about to hand to save_json.        *)
(* Spec runs each handler as one step (one request at a time).  SpecConc   *)
(* splits the mutating handlers at the boundary between load_json and      *)
(* save_json, so that requests that overlap interleave there.  SpecFault   *)
(* is Spec plus an environment that removes or garbles a document.         *)
(*                                                                         *)
(* A flash notice, which Flask keeps in the cookie until a page shows it,  *)
(* is part of the response here; the session holds the identity only.      *)
(* The bytes written under static/uploads are not part of the state: no    *)
(* handler reads them back.  save_json replaces a document in one step.    *)
(***************************************************************************)
EXTENDS Integers, Sequences, FiniteSets, TLC

\* ---------------------------------------------------------------- bounds

MaxProducts == 2      \* products.json holds at most this many records
MaxId       == 3      \* no id above this is assigned
MaxUsers    == 2      \* users.json holds at most this many records
MaxTime     == 2      \* datetime.now() returns a tick in 1..MaxTime
NumWorkers  == 2      \* requests the server handles at the same time

TicksPerSecond == 2   \* ticks of datetime.now() in one second of strftime

Workers == 1..NumWorkers
Times   == 1..MaxTime

\* ------------------------------------------------------- python's values

None == "None"                       \* form.get() of a field that was not sent

Falsy(s) == s = None \/ s = ""       \* `not s` for a str-or-None

\* ---------------------------------------------------------------- inputs

ADMIN_EMAIL    == "admin@modabrasileira.com"
ADMIN_PASSWORD == "admin123"

ANA       == "ana@x.com"
ADMIN_UPPER == "Admin@modabrasileira.com"    \* the admin's address in another case

Cred(email, password) == [email |-> email, password |-> password]

\* the forms posted to /cadastro
RegisterForms ==
    {Cred(ANA, "pw"), Cred(ADMIN_UPPER, "pw"), Cred(ADMIN_EMAIL, "pw"),
     Cred(None, "pw"), Cred(ANA, "")}

\* the forms posted to /login
LoginForms ==
    {Cred(ADMIN_EMAIL, ADMIN_PASSWORD), Cred(ADMIN_EMAIL, "pw"), Cred(ADMIN_EMAIL, None),
     Cred(ANA, "pw"), Cred(ANA, ADMIN_PASSWORD), Cred(None, "pw")}

Salts == {"s1"}                      \* the salt generate_password_hash draws

Ids == 1..MaxId                      \* <int:product_id> of the url

NoPrice == [given |-> FALSE, text |-> <<>>]
PriceText(t) == [given |-> TRUE, text |-> t]

Shirt == [name |-> "Shirt", description |-> "cotton", price |-> PriceText(<<"7">>),
          category |-> "tops", sizes |-> <<"M", "L">>, image |-> "shirt.png"]
Pants == [name |-> "Pants", description |-> "denim", price |-> PriceText(<<"-", "5">>),
          category |-> "bottoms", sizes |-> <<>>, image |-> "../pants.png"]
\* the edit form sent without choosing a file: the browser sends an empty filename
PantsNoFile == [Pants EXCEPT !.image = ""]
BadPrice == [Shirt EXCEPT !.price = PriceText(<<"a", "b">>)]
MissingPrice == [Shirt EXCEPT !.price = NoPrice]
\* a form with no fields at all, as a GET carries
NoForm == [name |-> None, description |-> None, price |-> NoPrice, category |-> None,
           sizes |-> <<>>, image |-> None]

Forms == {Shirt, Pants, PantsNoFile, BadPrice, MissingPrice}

\* ------------------------------------------------------------ responses

Render(template)     == [status |-> "render", target |-> template, flash |-> ""]
Redirect(route, msg) == [status |-> "redirect", target |-> route, flash |-> msg]
\* an exception no handler catches: Flask answers 500
Raise(exc)           == [status |-> "error", target |-> exc, flash |-> ""]
NoResponse           == [status |-> "none", target |-> "", flash |-> ""]

AccessDenied    == Redirect("index", "Acesso negado. Apenas administradores.")
FillAllFields(route) == Redirect(route, "Preencha todos os campos")
EmailTaken      == Redirect("register", "Email ja cadastrado")
Registered      == Redirect("login", "Cadastro realizado com sucesso!")
LoggedIn(admin) == Redirect(IF admin THEN "admin_panel" ELSE "index",
                            "Login realizado com sucesso!")
BadCredentials  == Redirect("login", "Email ou senha incorretos")
LoggedOut       == Redirect("index", "Logout realizado com sucesso")
ProductNotFound(route) == Redirect(route, "Produto nao encontrado")
LoadError       == Redirect("index", "Erro ao carregar produtos")
ProductAdded    == Redirect("admin_panel", "Produto adicionado com sucesso!")
ProductUpdated  == Redirect("admin_panel", "Produto atualizado com sucesso!")
ProductDeleted  == Redirect("admin_panel", "Produto deletado com sucesso!")

\* ------------------------------------------------------- document store

\* a document on disk: parsable JSON with its list, absent, or not parsable
Document(items) == [kind |-> "ok", items |-> items]
MissingFile     == [kind |-> "missing", items |-> <<>>]
CorruptFile     == [kind |-> "corrupt", items |-> <<>>]

\* json.load of the file, then data.get(<key>, []); open() and json.load raise
load_json(file) ==
    CASE file.kind = "ok"      -> [ok |-> TRUE, data |-> file.items, exc |-> ""]
      [] file.kind = "missing" -> [ok |-> FALSE, data |-> <<>>, exc |-> "FileNotFoundError"]
      [] OTHER                 -> [ok |-> FALSE, data |-> <<>>, exc |-> "JSONDecodeError"]

\* a store that keeps what it holds and adds the records it does not hold yet
save_json_merging(file, data) ==
    Document(file.items \o
             SelectSeq(data, LAMBDA x : \A i \in 1..Len(file.items) : file.items[i] # x))

\* open(filename, 'w') and json.dump: the whole document is replaced
save_json(file, data) == Document(data)

\* werkzeug's salted hash: the salt is kept beside the digest
generate_password_hash(password, salt) ==
    [salt |-> salt, digest |-> <<salt, password>>]

check_password_hash(pwhash, password) ==
    pwhash.digest = <<pwhash.salt, password>>

SeedAdmin == [email |-> ADMIN_EMAIL,
              password |-> generate_password_hash(ADMIN_PASSWORD, "s0"),
              is_admin |-> TRUE]

\* only a file that does not exist is written; a file that exists is left alone
init_json_files(users, products) ==
    [users    |-> IF users.kind = "missing" THEN Document(<<SeedAdmin>>) ELSE users,
     products |-> IF products.kind = "missing" THEN Document(<<>>) ELSE products]

\* ------------------------------------------------------------- sessions

NoSession == [user_email |-> None, is_admin |-> FALSE]    \* session.clear()

\* what a handler has done when it returns (done) or reaches save_json: its
\* response, the file operations it made in order, the session it leaves, whether
\* it ran init_json_files, and the collection it is about to save
Answer(response, ops, sess) ==
    [done |-> TRUE, resp |-> response, ops |-> ops, session |-> sess,
     init |-> FALSE, data |-> <<>>]
ToSave(data, ops, sess) ==
    [done |-> FALSE, resp |-> NoResponse, ops |-> ops, session |-> sess,
     init |-> FALSE, data |-> data]

\* 'user_email' not in session or not session.get('is_admin')
NotAdmin(sess) == sess.user_email = None \/ ~sess.is_admin

\* a gate that asks only for a login
admin_required_login_only(sess, handler) ==
    IF sess.user_email = None THEN Answer(AccessDenied, <<>>, sess) ELSE handler

\* the decorator: the wrapped handler runs only past the check
admin_required(sess, handler) ==
    IF NotAdmin(sess) THEN Answer(AccessDenied, <<>>, sess) ELSE handler

\* ------------------------------------------------------------ price text

Digits == {"0", "1", "2", "3", "4", "5", "6", "7", "8", "9"}

DigitValue(c) ==
    CASE c = "0" -> 0 [] c = "1" -> 1 [] c = "2" -> 2 [] c = "3" -> 3 [] c = "4" -> 4
      [] c = "5" -> 5 [] c = "6" -> 6 [] c = "7" -> 7 [] c = "8" -> 8 [] OTHER -> 9

RECURSIVE Decimal(_)
Decimal(text) ==
    IF text = <<>> THEN 0
    ELSE 10 * Decimal(SubSeq(text, 1, Len(text) - 1)) + DigitValue(text[Len(text)])

AllDigits(text) == text # <<>> /\ \A i \in 1..Len(text) : text[i] \in Digits

\* float(text) on the literals [+-]digits: the number, or ValueError
float(text) ==
    IF text # <<>> /\ text[1] \in {"-", "+"}
    THEN IF AllDigits(Tail(text))
         THEN [ok |-> TRUE, val |-> IF text[1] = "-" THEN 0 - Decimal(Tail(text))
                                                     ELSE Decimal(Tail(text))]
         ELSE [ok |-> FALSE, val |-> 0]
    ELSE IF AllDigits(text) THEN [ok |-> TRUE, val |-> Decimal(text)]
                            ELSE [ok |-> FALSE, val |-> 0]

\* ------------------------------------------------------------- products

\* werkzeug's secure_filename on the uploaded names: path parts are dropped
secure_filename(name) == IF name = "../pants.png" THEN "pants.png" ELSE name

\* datetime.now().strftime('%Y%m%d%H%M%S'): the tick cut to its second
strftime(now) == (now - 1) \div TicksPerSecond

\* f"uploads/{timestamp}_{filename}"
ImagePath(now, name) == <<"uploads", strftime(now), secure_filename(name)>>

\* bool(image): a FileStorage is true when it has a filename
HasImage(form) == ~Falsy(form.image)

\* all([name, description, price, category, image])
all_fields(form) ==
    /\ ~Falsy(form.name)
    /\ ~Falsy(form.description)
    /\ form.price.given /\ form.price.text # <<>>
    /\ ~Falsy(form.category)
    /\ HasImage(form)

MaxOf(S) == IF S = {} THEN 0
            ELSE LET x == CHOOSE y \in S : \A z \in S : z <= y IN x

IdsOf(products) == {products[i].id : i \in 1..Len(products)}

\* the next id taken from the number of products
new_id_by_count(products) == Len(products) + 1

\* max([p['id'] for p in products], default=0) + 1
new_id(products) == MaxOf(IdsOf(products)) + 1

\* next((p for p in products if p['id'] == product_id), None): the position of
\* the first match, 0 for None
find_product(products, product_id) ==
    IF \E i \in 1..Len(products) : products[i].id = product_id
    THEN CHOOSE i \in 1..Len(products) :
            /\ products[i].id = product_id
            /\ \A j \in 1..(i - 1) : products[j].id # product_id
    ELSE 0

\* the record add_product appends
NewProduct(products, form, now) ==
    [id |-> new_id(products), name |-> form.name, description |-> form.description,
     price |-> float(form.price.text).val, category |-> form.category,
     sizes |-> form.sizes, image |-> ImagePath(now, form.image), created_at |-> now]

\* an edit that stamps the record again
EditedProduct_restamped(product, form, now) ==
    [product EXCEPT !.name = form.name,
                    !.description = form.description,
                    !.price = float(form.price.text).val,
                    !.category = form.category,
                    !.sizes = form.sizes,
                    !.image = IF HasImage(form) THEN ImagePath(now, form.image) ELSE @,
                    !.created_at = now]

\* the in-place assignments of edit_product's POST branch
EditedProduct(product, form, now) ==
    [product EXCEPT !.name = form.name,
                    !.description = form.description,
                    !.price = float(form.price.text).val,
                    !.category = form.category,
                    !.sizes = form.sizes,
                    !.image = IF HasImage(form) THEN ImagePath(now, form.image) ELSE @]

\* a delete that takes the id for the record's place in the list
WithoutId_by_position(products, product_id) ==
    [i \in 1..(Len(products) - (IF product_id \in 1..Len(products) THEN 1 ELSE 0)) |->
        IF i < product_id \/ product_id < 1 THEN products[i] ELSE products[i + 1]]

\* [p for p in products if p['id'] != product_id]
RECURSIVE WithoutId(_, _)
WithoutId(products, product_id) ==
    IF products = <<>> THEN <<>>
    ELSE IF Head(products).id = product_id THEN WithoutId(Tail(products), product_id)
         ELSE <<Head(products)>> \o WithoutId(Tail(products), product_id)

\* --------------------------------------------------------------- routes
\* Each handler, from its request and the documents on disk.

\* @app.route('/')
index(sess, products) ==
    LET l == load_json(products)
    IN  IF l.ok THEN Answer(Render("index.html"), <<"load products">>, sess)
        ELSE [Answer(Render("index.html"), <<"load products", "init">>, sess)
                EXCEPT !.init = TRUE]

\* @app.route('/produto/<int:product_id>')
product_detail(sess, product_id, products) ==
    LET l == load_json(products)
    IN  IF ~l.ok THEN Answer(LoadError, <<"load products">>, sess)
        ELSE IF find_product(l.data, product_id) = 0
             THEN Answer(ProductNotFound("index"), <<"load products">>, sess)
             ELSE Answer(Render("product_detail.html"), <<"load products">>, sess)

Lower(email) == IF email = ADMIN_UPPER THEN ADMIN_EMAIL ELSE email

\* a duplicate check that ignores case
email_taken_ignoring_case(users, email) ==
    \E i \in 1..Len(users) : Lower(users[i].email) = Lower(email)

\* any(u['email'] == email for u in users)
email_taken(users, email) == \E i \in 1..Len(users) : users[i].email = email

\* @app.route('/cadastro')
register(sess, method, email, password, salt, users) ==
    IF method = "GET" THEN Answer(Render("register.html"), <<>>, sess)
    ELSE IF Falsy(email) \/ Falsy(password)
         THEN Answer(FillAllFields("register"), <<>>, sess)
    ELSE LET l == load_json(users)
         IN  IF ~l.ok THEN Answer(Raise(l.exc), <<"load users">>, sess)
             ELSE IF email_taken(l.data, email)
                  THEN Answer(EmailTaken, <<"load users">>, sess)
             ELSE ToSave(Append(l.data,
                                [email |-> email,
                                 password |-> generate_password_hash(password, salt),
                                 is_admin |-> FALSE]),
                         <<"load users">>, sess)

\* next((u for u in users if u['email'] == email), None): the position of the
\* first match, 0 for None
find_user(users, email) ==
    IF \E i \in 1..Len(users) : users[i].email = email
    THEN CHOOSE i \in 1..Len(users) :
            /\ users[i].email = email
            /\ \A j \in 1..(i - 1) : users[j].email # email
    ELSE 0

\* a login that looks up the email and never checks the password
login_any_password(sess, method, email, password, users) ==
    IF method = "GET" THEN Answer(Render("login.html"), <<>>, sess)
    ELSE LET l == load_json(users)
             u == find_user(l.data, email)
         IN  IF ~l.ok THEN Answer(Raise(l.exc), <<"load users">>, sess)
             ELSE IF u = 0 THEN Answer(BadCredentials, <<"load users">>, sess)
             ELSE Answer(LoggedIn(l.data[u].is_admin), <<"load users">>,
                         [user_email |-> email, is_admin |-> l.data[u].is_admin])

\* @app.route('/login'); werkzeug hashes password.encode(), which raises
\* AttributeError when the form carried no password field
login(sess, method, email, password, users) ==
    IF method = "GET" THEN Answer(Render("login.html"), <<>>, sess)
    ELSE LET l == load_json(users)
             u == find_user(l.data, email)
         IN  IF ~l.ok THEN Answer(Raise(l.exc), <<"load users">>, sess)
             ELSE IF u = 0 THEN Answer(BadCredentials, <<"load users">>, sess)
             ELSE IF password = None
                  THEN Answer(Raise("AttributeError"), <<"load users">>, sess)
             ELSE IF check_password_hash(l.data[u].password, password)
                  THEN Answer(LoggedIn(l.data[u].is_admin), <<"load users">>,
                              [user_email |-> email, is_admin |-> l.data[u].is_admin])
                  ELSE Answer(BadCredentials, <<"load users">>, sess)

\* @app.route('/logout')
logout(sess) == Answer(LoggedOut, <<>>, NoSession)

\* @app.route('/admin')
admin_panel(sess, products) ==
    admin_required(sess,
        LET l == load_json(products)
        IN  IF ~l.ok THEN Answer(Raise(l.exc), <<"load products">>, sess)
            ELSE Answer(Render("admin.html"), <<"load products">>, sess))

\* @app.route('/admin/adicionar')
add_product(sess, method, form, now, products) ==
    admin_required(sess,
        IF method = "GET" THEN Answer(Render("add_product.html"), <<>>, sess)
        ELSE IF ~all_fields(form) THEN Answer(FillAllFields("add_product"), <<>>, sess)
        ELSE LET l == load_json(products)
             IN  IF ~l.ok THEN Answer(Raise(l.exc), <<"load products">>, sess)
                 ELSE IF ~float(form.price.text).ok
                      THEN Answer(Raise("ValueError"), <<"load products">>, sess)
                 ELSE ToSave(Append(l.data, NewProduct(l.data, form, now)),
                             <<"load products">>, sess))

\* @app.route('/admin/editar/<int:product_id>')
edit_product(sess, method, product_id, form, now, products) ==
    admin_required(sess,
        LET l == load_json(products)
            i == find_product(l.data, product_id)
        IN  IF ~l.ok THEN Answer(Raise(l.exc), <<"load products">>, sess)
            ELSE IF i = 0
                 THEN Answer(ProductNotFound("admin_panel"), <<"load products">>, sess)
            ELSE IF method = "GET"
                 THEN Answer(Render("edit_product.html"), <<"load products">>, sess)
            ELSE IF ~form.price.given       \* float(None)
                 THEN Answer(Raise("TypeError"), <<"load products">>, sess)
            ELSE IF ~float(form.price.text).ok
                 THEN Answer(Raise("ValueError"), <<"load products">>, sess)
            ELSE ToSave([l.data EXCEPT ![i] = EditedProduct(@, form, now)],
                        <<"load products">>, sess))

\* @app.route('/admin/deletar/<int:product_id>', methods=['POST'])
delete_product(sess, product_id, products) ==
    admin_required(sess,
        LET l == load_json(products)
        IN  IF ~l.ok THEN Answer(Raise(l.exc), <<"load products">>, sess)
            ELSE ToSave(WithoutId(l.data, product_id), <<"load products">>, sess))

\* ---------------------------------------------------------------- state
\* The session is the signed cookie of one browser: Flask keeps no session on the
\* server and a handler reads and writes only the cookie of its own request, so
\* the sessions of different browsers never meet.

VARIABLES
    usersFile,      \* data/users.json
    productsFile,   \* data/products.json
    session,        \* the browser's session cookie
    inflight,       \* inflight[w]: the request that has loaded and not yet saved
    route,          \* the endpoint of the request that took the last step
    resp,           \* the response sent last
    fsLog,          \* the file operations of the step taken last, in order
    clobbered,      \* history: the last save_json replaced a document that had
                    \* changed since the saving request loaded it
    maxIssued       \* history: the greatest id add_product has assigned so far

vars == <<usersFile, productsFile, session, inflight, route, resp, fsLog, clobbered,
         maxIssued>>

Idle == [op |-> "idle", id |-> 0, loaded |-> <<>>, data |-> <<>>]

\* the module's start: both documents written by init_json_files, no session
Init ==
    /\ usersFile = init_json_files(MissingFile, MissingFile).users
    /\ productsFile = init_json_files(MissingFile, MissingFile).products
    /\ session = NoSession
    /\ inflight = [w \in Workers |-> Idle]
    /\ route = ""
    /\ resp = NoResponse
    /\ fsLog = <<>>
    /\ clobbered = FALSE
    /\ maxIssued = 0

\* the greatest id assigned, once a request that built data has saved it
Issued(op, data) ==
    IF op = "add_product" /\ data[Len(data)].id > maxIssued
    THEN data[Len(data)].id ELSE maxIssued

Success(op) ==
    CASE op = "register"       -> Registered
      [] op = "add_product"    -> ProductAdded
      [] op = "edit_product"   -> ProductUpdated
      [] OTHER                 -> ProductDeleted

OnUsers(op) == op = "register"

\* the collections the model lets a request build
WithinBounds(op, data) ==
    IF OnUsers(op) THEN Len(data) <= MaxUsers
    ELSE Len(data) <= MaxProducts /\ \A i \in 1..Len(data) : data[i].id <= MaxId

\* the handler returned (or raised) before any save_json
Answered(endpoint, o) ==
    /\ o.done
    /\ route' = endpoint
    /\ session' = o.session
    /\ resp' = o.resp
    /\ fsLog' = o.ops
    /\ usersFile' = IF o.init THEN init_json_files(usersFile, productsFile).users
                    ELSE usersFile
    /\ productsFile' = IF o.init THEN init_json_files(usersFile, productsFile).products
                       ELSE productsFile
    /\ UNCHANGED <<inflight, clobbered, maxIssued>>

\* the handler ran to its end in one step: save_json, flash, redirect
Saved(op, o) ==
    /\ ~o.done
    /\ route' = op
    /\ WithinBounds(op, o.data)
    /\ IF OnUsers(op)
       THEN usersFile' = save_json(usersFile, o.data) /\ UNCHANGED productsFile
       ELSE productsFile' = save_json(productsFile, o.data) /\ UNCHANGED usersFile
    /\ resp' = Success(op)
    /\ fsLog' = Append(o.ops, IF OnUsers(op) THEN "save users" ELSE "save products")
    /\ clobbered' = FALSE
    /\ maxIssued' = Issued(op, o.data)
    /\ UNCHANGED <<session, inflight>>

\* one request from arrival to response
Handled(op, o) == Answered(op, o) \/ Saved(op, o)

Index ==
    /\ Answered("index", index(session, productsFile))

ProductDetail(product_id) ==
    /\ Answered("product_detail", product_detail(session, product_id, productsFile))

Register(method, email, password, salt) ==
    /\ Handled("register", register(session, method, email, password, salt, usersFile))

Login(method, email, password) ==
    /\ Answered("login", login(session, method, email, password, usersFile))

Logout ==
    /\ Answered("logout", logout(session))

AdminPanel ==
    /\ Answered("admin_panel", admin_panel(session, productsFile))

AddProduct(method, form, now) ==
    /\ Handled("add_product", add_product(session, method, form, now, productsFile))

EditProduct(method, product_id, form, now) ==
    /\ Handled("edit_product",
               edit_product(session, method, product_id, form, now, productsFile))

DeleteProduct(product_id) ==
    /\ Handled("delete_product", delete_product(session, product_id, productsFile))

\* every route with every request of the input sets
Next ==
    \/ Index
    \/ \E id \in Ids : ProductDetail(id)
    \/ Register("GET", None, None, "s1")
    \/ \E f \in RegisterForms, s \in Salts : Register("POST", f.email, f.password, s)
    \/ Login("GET", None, None)
    \/ \E f \in LoginForms : Login("POST", f.email, f.password)
    \/ Logout
    \/ AdminPanel
    \/ \E t \in Times : AddProduct("GET", NoForm, t)
    \/ \E f \in Forms, t \in Times : AddProduct("POST", f, t)
    \/ \E id \in Ids, t \in Times : EditProduct("GET", id, NoForm, t)
    \/ \E id \in Ids, f \in Forms, t \in Times : EditProduct("POST", id, f, t)
    \/ \E id \in Ids : DeleteProduct(id)

\* one request at a time
Spec == Init /\ [][Next]_vars

\* ----------------------------------------------------- overlapping requests
\* A mutating handler as two steps, split where it has called load_json and has
\* not yet called save_json; between them any other request may run.

Loaded(w, op, product_id, o, file) ==
    /\ inflight[w] = Idle
    /\ ~o.done
    /\ WithinBounds(op, o.data)
    /\ route' = op
    /\ inflight' = [inflight EXCEPT ![w] = [op |-> op, id |-> product_id,
                                            loaded |-> file.items, data |-> o.data]]
    /\ fsLog' = o.ops
    /\ UNCHANGED <<usersFile, productsFile, session, resp, clobbered, maxIssued>>

RegisterLoad(w, email, password, salt) ==
    LET o == register(session, "POST", email, password, salt, usersFile)
    IN  Answered("register", o) \/ Loaded(w, "register", 0, o, usersFile)

AddProductLoad(w, form, now) ==
    LET o == add_product(session, "POST", form, now, productsFile)
    IN  Answered("add_product", o) \/ Loaded(w, "add_product", 0, o, productsFile)

EditProductLoad(w, product_id, form, now) ==
    LET o == edit_product(session, "POST", product_id, form, now, productsFile)
    IN  Answered("edit_product", o) \/ Loaded(w, "edit_product", product_id, o, productsFile)

DeleteProductLoad(w, product_id) ==
    LET o == delete_product(session, product_id, productsFile)
    IN  Answered("delete_product", o) \/ Loaded(w, "delete_product", product_id, o, productsFile)

\* the rest of the handler: save_json, flash, redirect
Save(w) ==
    LET r == inflight[w]
    IN  /\ r.op # "idle"
        /\ IF OnUsers(r.op)
           THEN /\ usersFile' = save_json(usersFile, r.data)
                /\ clobbered' = (usersFile.items # r.loaded)
                /\ fsLog' = <<"save users">>
                /\ UNCHANGED productsFile
           ELSE /\ productsFile' = save_json(productsFile, r.data)
                /\ clobbered' = (productsFile.items # r.loaded)
                /\ fsLog' = <<"save products">>
                /\ UNCHANGED usersFile
        /\ route' = r.op
        /\ resp' = Success(r.op)
        /\ inflight' = [inflight EXCEPT ![w] = Idle]
        /\ maxIssued' = Issued(r.op, r.data)
        /\ UNCHANGED session

ConcRegisterForms == {Cred(ANA, "pw"), Cred(ADMIN_UPPER, "pw")}
ConcIds == 1..2

NextConc ==
    \/ Login("POST", ADMIN_EMAIL, ADMIN_PASSWORD)
    \/ \E w \in Workers :
        \/ \E f \in ConcRegisterForms, s \in Salts :
              RegisterLoad(w, f.email, f.password, s)
        \/ AddProductLoad(w, Shirt, 1)
        \/ \E id \in ConcIds : EditProductLoad(w, id, PantsNoFile, 1)
        \/ \E id \in ConcIds : DeleteProductLoad(w, id)
        \/ Save(w)

\* requests of different workers interleave at their load and save steps
SpecConc == Init /\ [][NextConc]_vars

\* --------------------------------------------------------- storage faults
\* The environment removes a document or leaves it unparsable.

RemoveUsers ==
    /\ usersFile' = MissingFile
    /\ UNCHANGED <<productsFile, session, inflight, route, resp, fsLog, clobbered,
                 maxIssued>>

RemoveProducts ==
    /\ productsFile' = MissingFile
    /\ UNCHANGED <<usersFile, session, inflight, route, resp, fsLog, clobbered,
                 maxIssued>>

CorruptUsers ==
    /\ usersFile' = CorruptFile
    /\ UNCHANGED <<productsFile, session, inflight, route, resp, fsLog, clobbered,
                 maxIssued>>

CorruptProducts ==
    /\ productsFile' = CorruptFile
    /\ UNCHANGED <<usersFile, session, inflight, route, resp, fsLog, clobbered,
                 maxIssued>>

NextFault ==
    \/ Index
    \/ ProductDetail(1)
    \/ Register("GET", None, None, "s1")
    \/ Register("POST", ANA, "pw", "s1")
    \/ Login("GET", None, None)
    \/ \E f \in {Cred(ADMIN_EMAIL, ADMIN_PASSWORD), Cred(ANA, "pw")} :
          Login("POST", f.email, f.password)
    \/ Logout
    \/ AdminPanel
    \/ AddProduct("GET", NoForm, 1)
    \/ AddProduct("POST", Shirt, 1)
    \/ EditProduct("GET", 1, NoForm, 1)
    \/ EditProduct("POST", 1, PantsNoFile, 1)
    \/ DeleteProduct(1)
    \/ RemoveUsers
    \/ RemoveProducts
    \/ CorruptUsers
    \/ CorruptProducts

\* one request at a time, on documents that may go missing or bad
SpecFault == Init /\ [][NextFault]_vars

\* --------------------------------------------------------------- claims

Products == productsFile.items
Users    == usersFile.items

\* the password a stored record was registered with
StoredPassword(user) == user.password.digest[2]

HoldsId(products, product_id) ==
    \E i \in 1..Len(products) : products[i].id = product_id

HoldsEmail(users, email) ==
    \E i \in 1..Len(users) : users[i].email = email

\* C1: every id add_product assigns is greater than every id it assigned before,
\* so no id is assigned again, also after the product that held the greatest id
\* was deleted.
C1_IdsNeverReused ==
    [][(resp' = ProductAdded /\ Len(Products') = Len(Products) + 1)
          => Products'[Len(Products')].id > maxIssued]_vars

\* the routes under @admin_required
AdminRoutes == {"admin_panel", "add_product", "edit_product", "delete_product"}

\* C2: a request to an admin route whose session has no identity or an identity
\* that is not admin is answered with the access-denied redirect to the landing
\* page, with no file read or written and both collections and the session as
\* they were; a request whose session is admin is answered by the handler.
C2_AdminGate ==
    [][route' \in AdminRoutes =>
         IF session.user_email = None \/ session.is_admin = FALSE
         THEN /\ resp' = AccessDenied
              /\ fsLog' = <<>>
              /\ usersFile' = usersFile
              /\ productsFile' = productsFile
              /\ session' = session
         ELSE /\ resp' # AccessDenied
              /\ resp'.status \in {"render", "redirect", "error"}]_vars

\* a logged-in user who is not admin has been turned away
C2_Witness ==
    /\ resp = AccessDenied
    /\ session.user_email = ANA
    /\ session.is_admin = FALSE
    /\ Len(Products) > 0

C4_Register ==
    [][\A f \in RegisterForms, s \in Salts :
         (route' = "register" /\ Register("POST", f.email, f.password, s)) =>
            /\ HoldsEmail(Users, f.email) =>
                  /\ usersFile' = usersFile
                  /\ ~Falsy(f.password) => resp' = EmailTaken
            /\ (~HoldsEmail(Users, f.email) /\ ~Falsy(f.email) /\ ~Falsy(f.password)) =>
                  /\ resp' = Registered
                  /\ Len(Users') = Len(Users) + 1
                  /\ SubSeq(Users', 1, Len(Users)) = Users
                  /\ Users'[Len(Users')].email = f.email
                  /\ StoredPassword(Users'[Len(Users')]) = f.password
                  /\ Users'[Len(Users')].is_admin = FALSE
            /\ (Falsy(f.email) \/ Falsy(f.password)) => usersFile' = usersFile]_vars

\* the admin's email in another case was registered beside the admin, and a
\* second registration was turned away
C4_Witness ==
    /\ resp = EmailTaken
    /\ Users[1] = SeedAdmin
    /\ HoldsEmail(Users, ADMIN_UPPER)

\* C5: no request ends in an uncaught exception because a document is missing
\* or cannot be parsed.
C5_NoFatalOnBadStore ==
    resp.target \notin {"FileNotFoundError", "JSONDecodeError"}

\* C6: an admin's edit of an id in the collection leaves every other product,
\* the order, and the product's id and created_at as they were, keeps the image
\* unless a file came with the form, and on success sets the name, description,
\* price, category and sizes from the form; an edit of an id not in the
\* collection answers not-found and leaves the collection as it was.
C6_Edit ==
    [][\A id \in Ids, f \in Forms, t \in Times :
         (route' = "edit_product" /\ session.is_admin /\ EditProduct("POST", id, f, t)) =>
            IF ~HoldsId(Products, id)
            THEN resp' = ProductNotFound("admin_panel") /\ Products' = Products
            ELSE /\ Len(Products') = Len(Products)
                 /\ \A j \in 1..Len(Products) :
                       IF Products[j].id # id THEN Products'[j] = Products[j]
                       ELSE /\ Products'[j].id = id
                            /\ Products'[j].created_at = Products[j].created_at
                            /\ Falsy(f.image) => Products'[j].image = Products[j].image
                            /\ resp' = ProductUpdated =>
                                  /\ Products'[j].name = f.name
                                  /\ Products'[j].description = f.description
                                  /\ Products'[j].price = float(f.price.text).val
                                  /\ Products'[j].category = f.category
                                  /\ Products'[j].sizes = f.sizes
                                  /\ ~Falsy(f.image) =>
                                        Products'[j].image = ImagePath(t, f.image)]_vars

\* a product created at the second tick, edited since without a new file: it
\* has the other form's name and still its first image
C6_Witness ==
    /\ resp = ProductUpdated
    /\ \E j \in 1..Len(Products) :
          /\ Products[j].name = "Pants"
          /\ Products[j].image[3] = "shirt.png"
          /\ Products[j].created_at = 2

\* C7: after an admin's delete of an id, a lookup of that id finds nothing; the
\* collection is the old one without the records of that id, the others as they
\* were and in their order; deleting an id the collection does not hold leaves
\* it as it was.
C7_Delete ==
    [][\A id \in Ids :
         (route' = "delete_product" /\ session.is_admin /\ DeleteProduct(id)) =>
            /\ resp' = ProductDeleted
            /\ Products' = SelectSeq(Products, LAMBDA p : p.id # id)
            /\ product_detail(session', id, productsFile').resp = ProductNotFound("index")
            /\ ~HoldsId(Products, id) => Products' = Products]_vars

\* the first of two products was deleted and the second is still there
C7_Witness ==
    /\ resp = ProductDeleted
    /\ Len(Products) = 1
    /\ Products[1].id = 2

\* C8: every stored product has a price of at least 0.
C8_PricesNonNegative ==
    \A i \in 1..Len(Products) : Products[i].price >= 0

\* C9: no two stored products share an id and no two stored users share an
\* email, however the load and save steps of overlapping requests interleave.
C9_Unique ==
    /\ \A i, j \in 1..Len(Products) : i # j => Products[i].id # Products[j].id
    /\ \A i, j \in 1..Len(Users) : i # j => Users[i].email # Users[j].email

\* a save has replaced a document that another request changed meanwhile, and
\* both collections are full
C9_Witness ==
    /\ clobbered
    /\ Len(Products) = MaxProducts
    /\ Len(Users) = MaxUsers

\* C10: a save reports success and stores the collection its request loaded with
\* that request's one change: one record appended (add, register), the records
\* of one id removed (delete), one record replaced in place (edit).  So when
\* another request saved between the load and the save, what that request changed
\* is gone, and when none did, the stored collection keeps every earlier change.
C10_LastSaveWins ==
    [][\A w \in Workers :
         Save(w) =>
            LET r   == inflight[w]
                new == IF OnUsers(r.op) THEN Users' ELSE Products'
            IN  /\ resp' = Success(r.op)
                /\ r.op \in {"add_product", "register"} =>
                      /\ Len(new) = Len(r.loaded) + 1
                      /\ SubSeq(new, 1, Len(r.loaded)) = r.loaded
                /\ r.op = "delete_product" =>
                      new = SelectSeq(r.loaded, LAMBDA p : p.id # r.id)
                /\ r.op = "edit_product" =>
                      /\ Len(new) = Len(r.loaded)
                      /\ \A j \in 1..Len(new) :
                            r.loaded[j].id # r.id => new[j] = r.loaded[j]]_vars

\* two adds loaded the empty collection, both were answered with success, and
\* the collection holds one product
C10_Witness ==
    /\ clobbered
    /\ resp = ProductAdded
    /\ Len(Products) = 1
    /\ maxIssued = 1
    /\ \A w \in Workers : inflight[w] = Idle

=============================================================================
